---- MODULE Spec2Model ----
\* Wildfire reflex agent: rule engine, validation guardrail, temporal thermal
\* fusion and the perceive -> validate -> decide -> act cycle of
\* src/agents/wildfire_detection/wildfire_agent/agent.py.
\*
\* Units.  Floats of the source that are only compared are kept on an integer
\* grid: thermal in K, humidity in %, wind_speed in km/h, vegetation_density
\* in 1/100, asset_proximity in 1/10 km, latitude/longitude in degrees,
\* detection confidence in 1/100, time in minutes.  The one float that is
\* computed, the decision's confidence, is an IEEE-754 double (see Double).
\* A percept field that is None in Python is a field missing from the
\* percepts' DOMAIN.  Strings that the code inspects are sequences of
\* characters; the emoji that open the default messages are written "*".
EXTENDS Integers, Sequences, FiniteSets, TLC

VARIABLES
    rules,              \* RuleEngine.rules: list of rule functions
    rule_names,         \* RuleEngine.rule_names: dict function -> name
    owner,              \* "engine": a bare RuleEngine, "agent": owned by a SimpleReflexAgent
    thermal_threshold,  \* SimpleReflexAgent.thermal_threshold
    humidity_threshold, \* SimpleReflexAgent.humidity_threshold
    wind_threshold,     \* SimpleReflexAgent.wind_threshold
    percepts,           \* the EnvironmentalPercepts of the current call
    valid,              \* what validate(percepts) returned: "True", "False" ("unset" before)
    decision,           \* what evaluate/decide returned (or that it raised)
    invoked,            \* rule functions the last evaluate invoked, in order
    env_thermal,        \* THERMAL_THRESHOLD of the environment
    args,               \* arguments of the current run()/perceive() call
    pc,                 \* position of the current run()/perceive() call
    provider,           \* what the data provider answers in the current call
    calls,              \* provider capabilities and stages invoked by the current call
    fused,              \* "override", "baseline": what perceive did with thermal
    acted,              \* decisions handed to act(), in order
    result,             \* what run() returned to its caller
    log,                \* entries the current call has logged: fusion of perceive, errors
    previous,           \* the engine and the decision before a repeated evaluate
    peer,               \* rule engine of a second agent instance
    frames              \* local variables of run() invocations in progress together

vars == <<rules, rule_names, owner, thermal_threshold, humidity_threshold,
          wind_threshold, percepts, valid, decision, invoked, env_thermal,
          args, pc, provider, calls, fused, acted, result,
          log, previous, peer, frames>>

engineVars == <<rules, rule_names, owner, thermal_threshold,
                humidity_threshold, wind_threshold, env_thermal>>
runVars == <<args, pc, provider, calls, fused, acted, result>>
otherVars == <<previous, peer, frames>>

\* ---------------------------------------------------------------- bounds
MaxCustomRules == 2
MaxEdits == 2
MaxCalls == 2

\* ----------------------------------------------------------- Python values
None == [kind |-> "None"]
Str(s) == [kind |-> "str", s |-> s]
Obj == [kind |-> "obj"]            \* a truthy value that is not a string
Raised == [kind |-> "raise"]       \* the call raised an Exception

\* Truthy taking every return value but None for true
Truthy_NotNone(r) == r.kind \in {"obj", "str"}

\* bool(x) of a rule's return value
Truthy(r) == \/ r.kind = "obj"
             \/ r.kind = "str" /\ Len(r.s) > 0

\* ------------------------------------------------------------------ strings
LowerCase == <<"a","b","c","d","e","f","g","h","i","j","k","l","m","n","o","p","q","r","s","t","u","v","w","x","y","z">>
UpperCase == <<"A","B","C","D","E","F","G","H","I","J","K","L","M","N","O","P","Q","R","S","T","U","V","W","X","Y","Z">>

\* str.upper(), one character
UpperChar(c) ==
    IF \E i \in 1..Len(LowerCase) : LowerCase[i] = c
    THEN UpperCase[CHOOSE i \in 1..Len(LowerCase) : LowerCase[i] = c]
    ELSE c

\* str.upper()
StrUpper(s) == [i \in 1..Len(s) |-> UpperChar(s[i])]

\* k in s, for strings
StrIn(k, s) == \E i \in 0..(Len(s) - Len(k)) : SubSeq(s, i + 1, i + Len(k)) = k

RECURSIVE StrJoin(_, _)
\* sep.join(parts)
StrJoin(sep, parts) ==
    IF Len(parts) = 0 THEN <<>>
    ELSE IF Len(parts) = 1 THEN parts[1]
    ELSE parts[1] \o sep \o StrJoin(sep, Tail(parts))

KwCritical == <<"C","R","I","T","I","C","A","L">>
KwHigh == <<"H","I","G","H">>
KwMedium == <<"M","E","D","I","U","M">>
AlertSeparator == <<";"," ">>

MsgHighTemperatureForest ==
    <<"*"," ","C","R","I","T","I","C","A","L"," ","w","i","l","d","f","i","r","e"," ","r","i","s","k",":"," ","H","i","g","h"," ","t","e","m","p","e","r","a","t","u","r","e"," ","i","n"," ","f","o","r","e","s","t"," ","w","i","t","h"," ","l","o","w"," ","h","u","m","i","d","i","t","y">>
MsgExtremeWeather ==
    <<"*"," ","H","I","G","H"," ","w","i","l","d","f","i","r","e"," ","r","i","s","k",":"," ","E","x","t","r","e","m","e"," ","w","e","a","t","h","e","r"," ","c","o","n","d","i","t","i","o","n","s">>
MsgVegetationThermal ==
    <<"*"," ","H","I","G","H"," ","w","i","l","d","f","i","r","e"," ","r","i","s","k",":"," ","D","e","n","s","e"," ","v","e","g","e","t","a","t","i","o","n"," ","w","i","t","h"," ","e","l","e","v","a","t","e","d"," ","t","e","m","p","e","r","a","t","u","r","e">>
MsgAssetProximity ==
    <<"*"," ","M","E","D","I","U","M"," ","w","i","l","d","f","i","r","e"," ","r","i","s","k",":"," ","P","o","t","e","n","t","i","a","l"," ","t","h","r","e","a","t"," ","t","o"," ","n","e","a","r","b","y"," ","a","s","s","e","t","s">>
MsgHighTemp ==
    <<"H","I","G","H"," ","t","e","m","p","e","r","a","t","u","r","e"," ","a","l","e","r","t">>
MsgTestAlert ==
    <<"T","e","s","t"," ","a","l","e","r","t">>
MsgLowerCritical ==
    <<"c","r","i","t","i","c","a","l",":"," ","c","r","o","w","n"," ","f","i","r","e">>
MsgMediumToHigh ==
    <<"m","e","d","i","u","m"," ","t","o"," ","h","i","g","h">>

\* ------------------------------------------------------------------ doubles
\* An IEEE-754 binary64 value that is zero or a positive normal number:
\* (hi * 2^27 + lo) * 2^e with a 53-bit mantissa, 2^25 <= hi < 2^26, lo < 2^27.
Limb == 2^27
DZero == [hi |-> 0, lo |-> 0, e |-> 0]
\* the literal 1.0
DOne == [hi |-> 2^25, lo |-> 0, e |-> -52]
\* the literal 0.3 = 0x1.3333333333333p-2
DPerRule == [hi |-> 40265318, lo |-> 53687091, e |-> -54]

\* a <= b
DoubleLe(a, b) ==
    \/ a.hi = 0
    \/ /\ b.hi # 0
       /\ \/ a.e < b.e
          \/ a.e = b.e /\ a.hi < b.hi
          \/ a.e = b.e /\ a.hi = b.hi /\ a.lo <= b.lo

\* min(a, b)
DoubleMin(a, b) == IF DoubleLe(a, b) THEN a ELSE b

\* n * d for an int n >= 0 (converted exactly) and a double d: the exact
\* product rounded to 53 bits, ties to even
IntTimesDouble(n, d) ==
    IF n = 0 \/ d.hi = 0 THEN DZero
    ELSE
      LET plo == n * d.lo
          lo1 == plo % Limb
          hi1 == n * d.hi + (plo \div Limb)
          s == CHOOSE k \in 0..5 : hi1 < 2^(26 + k) /\ (k = 0 \/ hi1 >= 2^(25 + k))
          dropped == lo1 % (2^s)
          lo2 == (lo1 \div (2^s)) + (hi1 % (2^s)) * 2^(27 - s)
          hi2 == hi1 \div (2^s)
          half == IF s = 0 THEN 0 ELSE 2^(s - 1)
          up == s > 0 /\ (dropped > half \/ (dropped = half /\ lo2 % 2 = 1))
          lo3 == IF up THEN lo2 + 1 ELSE lo2
          hi3 == hi2 + (lo3 \div Limb)
      IN IF hi3 = 2^26
         THEN [hi |-> 2^25, lo |-> 0, e |-> d.e + s + 1]
         ELSE [hi |-> hi3, lo |-> lo3 % Limb, e |-> d.e + s]

\* ----------------------------------------------------------------- percepts
\* EnvironmentalPercepts: a function from the names of the fields that are
\* not None to their values.
PerceptFields == {"thermal", "humidity", "wind_speed", "landuse",
                  "vegetation_density", "asset_proximity", "timestamp",
                  "latitude", "longitude"}

IsNone(p, f) == f \notin DOMAIN p

\* float("nan"): a grid value off every range; an ordering comparison with it
\* is False.
NaN == 2^30
Less(x, c) == x # NaN /\ x < c
Greater(x, c) == x # NaN /\ x > c

\* Outcome of one Python comparison: "T", "F", or "E" when it raises TypeError
\* (an ordering comparison with None).
Gt(p, f, c) == IF IsNone(p, f) THEN "E" ELSE IF Greater(p[f], c) THEN "T" ELSE "F"
Lt(p, f, c) == IF IsNone(p, f) THEN "E" ELSE IF Less(p[f], c) THEN "T" ELSE "F"
\* == and `in` never raise
In(p, f, S) == IF ~IsNone(p, f) /\ p[f] \in S THEN "T" ELSE "F"

\* a and b and c, evaluated left to right with short circuit
And3(a, b, c) == IF a # "T" THEN a ELSE IF b # "T" THEN b ELSE c

\* `if cond: return msg` / `return None` of a rule body
RuleReturn(cond, msg) ==
    IF cond = "E" THEN Raised ELSE IF cond = "T" THEN Str(msg) ELSE None

\* -------------------------------------------------------------------- rules
DefaultThermalThreshold == 330
DefaultHumidityThreshold == 30
DefaultWindThreshold == 15

\* high_temperature_forest_rule with thermal >= threshold
high_temperature_forest_rule_NonStrict(p, cfg) ==
    RuleReturn(And3(IF IsNone(p, "thermal") THEN "E"
                    ELSE IF p.thermal >= cfg.thermal_threshold THEN "T" ELSE "F",
                    In(p, "landuse", {"forest"}),
                    Lt(p, "humidity", cfg.humidity_threshold)),
               MsgHighTemperatureForest)

\* The closures of _setup_default_rules read the agent's thresholds when they
\* are called; cfg holds the agent's thresholds at the time of the call.
high_temperature_forest_rule(p, cfg) ==
    RuleReturn(And3(Gt(p, "thermal", cfg.thermal_threshold),
                    In(p, "landuse", {"forest"}),
                    Lt(p, "humidity", cfg.humidity_threshold)),
               MsgHighTemperatureForest)

extreme_weather_rule(p, cfg) ==
    RuleReturn(And3(Gt(p, "wind_speed", cfg.wind_threshold),
                    Lt(p, "humidity", 20),
                    Gt(p, "thermal", 315)),
               MsgExtremeWeather)

vegetation_thermal_rule(p) ==
    RuleReturn(And3(Gt(p, "vegetation_density", 60),
                    Gt(p, "thermal", 325),
                    Lt(p, "humidity", 40)),
               MsgVegetationThermal)

asset_proximity_rule(p) ==
    RuleReturn(And3(Lt(p, "asset_proximity", 50),
                    Gt(p, "thermal", 315),
                    In(p, "landuse", {"forest", "grassland"})),
               MsgAssetProximity)

\* Custom rules of the test suite
high_temp_rule(p) == RuleReturn(Gt(p, "thermal", 330), MsgHighTemp)
test_rule(p) == RuleReturn(Gt(p, "thermal", 300), MsgTestAlert)

DefaultFuncs == <<"high_temperature_forest_rule", "extreme_weather_rule",
                  "vegetation_thermal_rule", "asset_proximity_rule">>
DefaultNames == <<"high_temperature_forest", "extreme_weather",
                  "vegetation_thermal", "asset_proximity">>

\* Rule functions a caller registers: the two of the test suite, and
\* predicates that always answer the same way (a lower-case keyword, two
\* keywords in one message, an exception, an empty string, a non-string).
CustomFuncs == {"high_temp_rule", "test_rule", "lower_critical_rule",
                "medium_to_high_rule", "broken_rule", "empty_rule",
                "truthy_rule"}

\* rule(percepts)
RuleCall(f, p, cfg) ==
    CASE f = "high_temperature_forest_rule" -> high_temperature_forest_rule(p, cfg)
      [] f = "extreme_weather_rule" -> extreme_weather_rule(p, cfg)
      [] f = "vegetation_thermal_rule" -> vegetation_thermal_rule(p)
      [] f = "asset_proximity_rule" -> asset_proximity_rule(p)
      [] f = "high_temp_rule" -> high_temp_rule(p)
      [] f = "test_rule" -> test_rule(p)
      [] f = "lower_critical_rule" -> Str(MsgLowerCritical)
      [] f = "medium_to_high_rule" -> Str(MsgMediumToHigh)
      [] f = "broken_rule" -> Raised
      [] f = "empty_rule" -> Str(<<>>)
      [] f = "truthy_rule" -> Obj

\* ------------------------------------------------------------ RuleEngine
RiskLevels == <<"LOW", "MEDIUM", "HIGH", "CRITICAL">>

\* risk_priority[level]
RiskPriority(level) == CHOOSE i \in 0..3 : RiskLevels[i + 1] = level

\* ExtractRisk with the HIGH test ahead of the CRITICAL test
ExtractRisk_HighFirst(max_risk_level, msg) ==
    LET up == StrUpper(msg)
    IN IF StrIn(KwHigh, up) /\ RiskPriority(max_risk_level) < 2 THEN "HIGH"
       ELSE IF StrIn(KwCritical, up) THEN "CRITICAL"
       ELSE IF StrIn(KwMedium, up) /\ RiskPriority(max_risk_level) < 1 THEN "MEDIUM"
       ELSE max_risk_level

\* ExtractRisk with the MEDIUM test ahead of the HIGH test
ExtractRisk_MediumFirst(max_risk_level, msg) ==
    LET up == StrUpper(msg)
    IN IF StrIn(KwCritical, up) THEN "CRITICAL"
       ELSE IF StrIn(KwMedium, up) /\ RiskPriority(max_risk_level) < 1 THEN "MEDIUM"
       ELSE IF StrIn(KwHigh, up) /\ RiskPriority(max_risk_level) < 2 THEN "HIGH"
       ELSE max_risk_level

\* ExtractRisk without the comparisons against the maximum so far
ExtractRisk_LastWins(max_risk_level, msg) ==
    LET up == StrUpper(msg)
    IN IF StrIn(KwCritical, up) THEN "CRITICAL"
       ELSE IF StrIn(KwHigh, up) THEN "HIGH"
       ELSE IF StrIn(KwMedium, up) THEN "MEDIUM"
       ELSE max_risk_level

\* The if/elif chain that extracts the risk level of one message, given the
\* maximum so far.
ExtractRisk(max_risk_level, msg) ==
    LET up == StrUpper(msg)
    IN IF StrIn(KwCritical, up) THEN "CRITICAL"
       ELSE IF StrIn(KwHigh, up) /\ RiskPriority(max_risk_level) < 2 THEN "HIGH"
       ELSE IF StrIn(KwMedium, up) /\ RiskPriority(max_risk_level) < 1 THEN "MEDIUM"
       ELSE max_risk_level

\* EvalStep without the try/except around the rule call
EvalStep_NoTry(acc, f, names, p, cfg) ==
    LET r == RuleCall(f, p, cfg)
        called == [acc EXCEPT !.invoked = Append(@, f)]
    IN IF r.kind = "raise" \/ (Truthy(r) /\ f \notin DOMAIN names) \/ r.kind = "obj"
       THEN [called EXCEPT !.failed = TRUE]
       ELSE IF ~Truthy(r) THEN called
       ELSE [called EXCEPT !.triggered_rules = Append(@, names[f]),
                           !.alerts = Append(@, r),
                           !.max_risk_level = ExtractRisk(@, r.s)]

\* One iteration of `for rule in self.rules`.  acc.failed: an exception left
\* the loop (the except handler itself raised KeyError).
EvalStep(acc, f, names, p, cfg) ==
    LET r == RuleCall(f, p, cfg)
        called == [acc EXCEPT !.invoked = Append(@, f)]
    IN IF r.kind = "raise"
       THEN \* except Exception: logger.error(... self.rule_names[rule] ...)
            IF f \in DOMAIN names THEN called
            ELSE [called EXCEPT !.failed = TRUE]
       ELSE IF ~Truthy(r) THEN called
       ELSE IF f \notin DOMAIN names
       THEN \* self.rule_names[rule] raises KeyError, and so does the handler
            [called EXCEPT !.failed = TRUE]
       ELSE LET rec == [called EXCEPT !.triggered_rules = Append(@, names[f]),
                                      !.alerts = Append(@, r)]
            IN IF r.kind = "obj"
               THEN rec   \* result.upper() raises AttributeError, caught
               ELSE [rec EXCEPT !.max_risk_level = ExtractRisk(@, r.s)]

RECURSIVE EvalLoop(_, _, _, _, _, _)
EvalLoop(acc, i, rs, names, p, cfg) ==
    IF i > Len(rs) \/ acc.failed THEN acc
    ELSE EvalLoop(EvalStep(acc, rs[i], names, p, cfg), i + 1, rs, names, p, cfg)

\* Confidence without the cap at 1.0
Confidence_NoCap(triggered_rules) ==
    IF Len(triggered_rules) > 0
    THEN IntTimesDouble(Len(triggered_rules), DPerRule)
    ELSE DZero

\* confidence = min(len(triggered_rules) * 0.3, 1.0) if triggered_rules else 0.0
Confidence(triggered_rules) ==
    IF Len(triggered_rules) > 0
    THEN DoubleMin(IntTimesDouble(Len(triggered_rules), DPerRule), DOne)
    ELSE DZero

\* AlertMessage without `if alerts else None`
AlertMessage_AlwaysJoin(alerts) == Str(StrJoin(AlertSeparator, alerts))

\* alert_message = "; ".join(alerts) if alerts else None  (alerts: strings)
AlertMessage(alerts) ==
    IF Len(alerts) > 0 THEN Str(StrJoin(AlertSeparator, alerts)) ELSE None

\* The loop of RuleEngine.evaluate over self.rules
EvalRules(rs, names, p, cfg) ==
    EvalLoop([triggered_rules |-> <<>>, alerts |-> <<>>,
              max_risk_level |-> "LOW", invoked |-> <<>>, failed |-> FALSE],
             1, rs, names, p, cfg)

\* Evaluate keeping the triggered rules of the decision before
Evaluate_Accumulating(rs, names, p, cfg) ==
    LET acc == EvalRules(rs, names, p, cfg)
        kept == IF decision.kind = "decision" THEN decision.triggered_rules ELSE <<>>
    IN IF acc.failed \/ \E i \in 1..Len(acc.alerts) : acc.alerts[i].kind # "str"
       THEN Raised
       ELSE [kind |-> "decision",
             risk_level |-> acc.max_risk_level,
             alert_message |->
                 AlertMessage([i \in 1..Len(acc.alerts) |-> acc.alerts[i].s]),
             confidence |-> Confidence(kept \o acc.triggered_rules),
             triggered_rules |-> kept \o acc.triggered_rules]

\* RuleEngine.evaluate: the WildfireDecision it returns (without its
\* timestamp), or Raised.
Evaluate(rs, names, p, cfg) ==
    LET acc == EvalRules(rs, names, p, cfg)
    IN IF acc.failed \/ \E i \in 1..Len(acc.alerts) : acc.alerts[i].kind # "str"
       THEN \* "; ".join(alerts) raises TypeError on a non-string
            Raised
       ELSE [kind |-> "decision",
             risk_level |-> acc.max_risk_level,
             alert_message |->
                 AlertMessage([i \in 1..Len(acc.alerts) |-> acc.alerts[i].s]),
             confidence |-> Confidence(acc.triggered_rules),
             triggered_rules |-> acc.triggered_rules]

\* -------------------------------------------------------------- the state
NoCall == [kind |-> "nocall"]       \* nothing returned yet
Config == [thermal_threshold |-> thermal_threshold,
           humidity_threshold |-> humidity_threshold,
           wind_threshold |-> wind_threshold]

CustomCount == Len(SelectSeq(rules, LAMBDA f : f \in CustomFuncs))

\* name argument of add_rule: "" stands for None (name or func.__name__)
NameArgs(f) == IF f = "lower_critical_rule" THEN {"", "crown_fire"} ELSE {""}

\* decorator returned by RuleEngine.add_rule(name), applied to func
Register(rs, names, func, name) ==
    [rules |-> Append(rs, func),
     rule_names |-> [g \in DOMAIN names \cup {func} |->
                       IF g = func THEN (IF name # "" THEN name ELSE func)
                       ELSE names[g]]]

Drop(p, f) == [g \in DOMAIN p \ {f} |-> p[g]]

\* Percepts handed to evaluate/decide directly
EnginePercepts ==
    LET full == [thermal : {320, 331}, humidity : {10, 25, 45},
                 wind_speed : {12, 30}, landuse : {"forest", "urban"},
                 vegetation_density : {30, 90}, asset_proximity : {10, 150},
                 timestamp : {0}, latitude : {40}, longitude : {-120}]
    IN full \cup {Drop(p, "wind_speed") : p \in {q \in full : q.wind_speed = 30}}

Idle == /\ pc = "idle"
        /\ args = None
        /\ provider = None
        /\ calls = <<>>
        /\ fused = "none"
        /\ acted = <<>>
        /\ result = NoCall
        /\ log = <<>>
        /\ previous = NoCall

\* RuleEngine(): no rules, no names
InitEngine ==
    /\ rules = <<>>
    /\ rule_names = <<>>
    /\ owner = "engine"
    /\ env_thermal = DefaultThermalThreshold
    /\ thermal_threshold = DefaultThermalThreshold
    /\ humidity_threshold = DefaultHumidityThreshold
    /\ wind_threshold = DefaultWindThreshold
    /\ percepts \in EnginePercepts
    /\ valid = "unset"
    /\ decision = NoCall
    /\ invoked = <<>>
    /\ Idle
    /\ peer = None
    /\ frames = <<>>

\* SimpleReflexAgent(): a new RuleEngine with the four default rules and the
\* thresholds of the environment (defaults)
AgentInit ==
    /\ owner = "engine"
    /\ rules = <<>>
    /\ owner' = "agent"
    /\ rules' = DefaultFuncs
    /\ rule_names' = [f \in {DefaultFuncs[i] : i \in 1..4} |->
                        DefaultNames[CHOOSE i \in 1..4 : DefaultFuncs[i] = f]]
    /\ thermal_threshold' = env_thermal
    /\ humidity_threshold' = DefaultHumidityThreshold
    /\ wind_threshold' = DefaultWindThreshold
    /\ decision' = NoCall
    /\ invoked' = <<>>
    /\ UNCHANGED <<percepts, valid, env_thermal>>
    /\ UNCHANGED runVars
    /\ previous' = NoCall
    /\ UNCHANGED <<log, peer, frames>>

\* @add_rule(name) def func: ...   (RuleEngine.add_rule, SimpleReflexAgent.add_rule)
AddRule(func, name) ==
    /\ CustomCount < MaxCustomRules
    /\ LET reg == Register(rules, rule_names, func, name)
       IN /\ rules' = reg.rules
          /\ rule_names' = reg.rule_names
    /\ decision' = NoCall
    /\ invoked' = <<>>
    /\ UNCHANGED <<owner, thermal_threshold, humidity_threshold, wind_threshold,
                   env_thermal, percepts, valid>>
    /\ UNCHANGED runVars
    /\ previous' = NoCall
    /\ UNCHANGED <<log, peer, frames>>

\* engine.evaluate(percepts) / agent.decide(percepts), called directly
Decide ==
    /\ decision = NoCall
    /\ decision' = Evaluate(rules, rule_names, percepts, Config)
    /\ invoked' = EvalRules(rules, rule_names, percepts, Config).invoked
    /\ UNCHANGED <<percepts, valid>>
    /\ UNCHANGED engineVars
    /\ UNCHANGED runVars
    /\ UNCHANGED log
    /\ UNCHANGED otherVars

\* engine.evaluate(percepts) / agent.decide(percepts) called once more on the
\* same percepts; previous keeps the engine and the decision before the call
DecideAgain ==
    /\ decision # NoCall
    /\ previous' = [decision |-> decision, rules |-> rules, rule_names |-> rule_names]
    /\ decision' = Evaluate(rules, rule_names, percepts, Config)
    /\ invoked' = EvalRules(rules, rule_names, percepts, Config).invoked
    /\ UNCHANGED <<percepts, valid, log, peer, frames>>
    /\ UNCHANGED engineVars
    /\ UNCHANGED runVars

NextEngine ==
    \/ AgentInit
    \/ \E f \in CustomFuncs : \E n \in NameArgs(f) : AddRule(f, n)
    \/ Decide

SpecEngine == InitEngine /\ [][NextEngine]_vars

\* Percepts of the calls that are repeated
RegistryPercepts ==
    {p \in EnginePercepts : /\ p.humidity # 25
                            /\ p.vegetation_density = 90
                            /\ p.asset_proximity = 10}

\* RuleEngine(), as InitEngine, before calls that repeat
InitRegistry ==
    /\ rules = <<>>
    /\ rule_names = <<>>
    /\ owner = "engine"
    /\ env_thermal = DefaultThermalThreshold
    /\ thermal_threshold = DefaultThermalThreshold
    /\ humidity_threshold = DefaultHumidityThreshold
    /\ wind_threshold = DefaultWindThreshold
    /\ percepts \in RegistryPercepts
    /\ valid = "unset"
    /\ decision = NoCall
    /\ invoked = <<>>
    /\ Idle
    /\ peer = None
    /\ frames = <<>>

NextRegistry ==
    \/ AgentInit
    \/ \E f \in CustomFuncs : \E n \in NameArgs(f) : AddRule(f, n)
    \/ Decide
    \/ DecideAgain

SpecRegistry == InitRegistry /\ [][NextRegistry]_vars

\* Percepts on both sides of every comparison of the default rules, with
\* the high-risk and the low-risk scenario of TestIntegration
DefaultRulePercepts ==
    [thermal : {280, 315, 316, 325, 326, 330, 331, 340},
     humidity : {10, 19, 20, 29, 30, 39, 40, 80},
     wind_speed : {5, 15, 16, 30},
     landuse : {"forest", "grassland", "urban"},
     vegetation_density : {10, 60, 61, 95},
     asset_proximity : {5, 10, 49, 50, 51},
     timestamp : {0}, latitude : {40}, longitude : {-120}]

\* RuleEngine(), as InitEngine, before the construction of an agent
InitDefaults ==
    /\ rules = <<>>
    /\ rule_names = <<>>
    /\ owner = "engine"
    /\ env_thermal = DefaultThermalThreshold
    /\ thermal_threshold = DefaultThermalThreshold
    /\ humidity_threshold = DefaultHumidityThreshold
    /\ wind_threshold = DefaultWindThreshold
    /\ percepts \in DefaultRulePercepts
    /\ valid = "unset"
    /\ decision = NoCall
    /\ invoked = <<>>
    /\ Idle
    /\ peer = None
    /\ frames = <<>>

NextDefaults ==
    \/ AgentInit
    \/ Decide

SpecDefaults == InitDefaults /\ [][NextDefaults]_vars

\* --------------------------------------- add_rule interleaved with evaluate
\* Rules registered while evaluate may run
InterleavedFuncs == {"high_temp_rule", "test_rule", "lower_critical_rule"}

\* RuleEngine(), as InitEngine; frames holds the call of the decorator that
\* is between its two statements, if there is one
InitInterleaved ==
    /\ rules = <<>>
    /\ rule_names = <<>>
    /\ owner = "engine"
    /\ env_thermal = DefaultThermalThreshold
    /\ thermal_threshold = DefaultThermalThreshold
    /\ humidity_threshold = DefaultHumidityThreshold
    /\ wind_threshold = DefaultWindThreshold
    /\ percepts \in RegistryPercepts
    /\ valid = "unset"
    /\ decision = NoCall
    /\ invoked = <<>>
    /\ Idle
    /\ peer = None
    /\ frames = <<>>

\* decorator(func), first statement: self.rules.append(func)
AddRuleAppend(func, name) ==
    /\ frames = <<>>
    /\ CustomCount < MaxCustomRules
    /\ rules' = Append(rules, func)
    /\ frames' = <<[func |-> func, name |-> name]>>
    /\ decision' = NoCall
    /\ invoked' = <<>>
    /\ UNCHANGED <<rule_names, owner, thermal_threshold, humidity_threshold,
                   wind_threshold, env_thermal, percepts, valid, log, previous, peer>>
    /\ UNCHANGED runVars

\* decorator(func), second statement: self.rule_names[func] = name or func.__name__
AddRuleName ==
    /\ frames # <<>>
    /\ rule_names' = Register(rules, rule_names, frames[1].func, frames[1].name).rule_names
    /\ frames' = <<>>
    /\ decision' = NoCall
    /\ invoked' = <<>>
    /\ UNCHANGED <<rules, owner, thermal_threshold, humidity_threshold,
                   wind_threshold, env_thermal, percepts, valid, log, previous, peer>>
    /\ UNCHANGED runVars

\* evaluate runs in another thread, before, between or after the two
\* statements of the decorator
NextInterleaved ==
    \/ AgentInit
    \/ \E f \in InterleavedFuncs : \E n \in NameArgs(f) : AddRuleAppend(f, n)
    \/ AddRuleName
    \/ Decide

SpecInterleaved == InitInterleaved /\ [][NextInterleaved]_vars

\* ------------------------------------------- thresholds changed after init
\* Values assigned to the threshold attributes of an agent, on both sides of
\* the defaults
ThresholdValues ==
    [thermal_threshold |-> {320, DefaultThermalThreshold, 340},
     humidity_threshold |-> {20, DefaultHumidityThreshold, 40},
     wind_threshold |-> {10, DefaultWindThreshold, 20}]

\* Percepts on both sides of every value of ThresholdValues
ThresholdPercepts ==
    [thermal : {325, 335}, humidity : {15, 25, 35}, wind_speed : {12, 18},
     landuse : {"forest"}, vegetation_density : {90}, asset_proximity : {10},
     timestamp : {0}, latitude : {40}, longitude : {-120}]

\* RuleEngine(), as InitEngine, before the construction of an agent
InitThresholds ==
    /\ rules = <<>>
    /\ rule_names = <<>>
    /\ owner = "engine"
    /\ env_thermal = DefaultThermalThreshold
    /\ thermal_threshold = DefaultThermalThreshold
    /\ humidity_threshold = DefaultHumidityThreshold
    /\ wind_threshold = DefaultWindThreshold
    /\ percepts \in ThresholdPercepts
    /\ valid = "unset"
    /\ decision = NoCall
    /\ invoked = <<>>
    /\ Idle
    /\ peer = None
    /\ frames = <<>>

\* agent.thermal_threshold = v (or humidity_threshold, wind_threshold) on an
\* agent that exists: the attributes __init__ sets are plain attributes
SetThreshold(f, v) ==
    /\ owner = "agent"
    /\ Config[f] # v
    /\ thermal_threshold' = IF f = "thermal_threshold" THEN v ELSE thermal_threshold
    /\ humidity_threshold' = IF f = "humidity_threshold" THEN v ELSE humidity_threshold
    /\ wind_threshold' = IF f = "wind_threshold" THEN v ELSE wind_threshold
    /\ decision' = NoCall
    /\ invoked' = <<>>
    /\ UNCHANGED <<rules, rule_names, owner, env_thermal, percepts, valid, log>>
    /\ UNCHANGED runVars
    /\ UNCHANGED otherVars

NextThresholds ==
    \/ AgentInit
    \/ \E f \in DOMAIN ThresholdValues : \E v \in ThresholdValues[f] : SetThreshold(f, v)
    \/ Decide

SpecThresholds == InitThresholds /\ [][NextThresholds]_vars

\* ------------------------------------------------------ two agent instances
\* Engines by number: 1 is the engine in rules/rule_names, 2 the one in peer
\* EngineOf with one engine for all agents of the process
EngineOf_Singleton(a) == 1

\* The engine that agent number a registers on and evaluates with:
\* self.rule_engine = RuleEngine(), an engine of its own with its own list
EngineOf(a) == a

\* Rule functions registered on the two agents
PeerFuncs == {"high_temp_rule", "test_rule"}

\* The registry of the default rules
DefaultRegistry ==
    [f \in {DefaultFuncs[i] : i \in 1..4} |->
        DefaultNames[CHOOSE i \in 1..4 : DefaultFuncs[i] = f]]

\* Percepts of the decisions of the first agent
AgentsPercepts == {p \in RegistryPercepts : p.humidity = 10 /\ "wind_speed" \in DOMAIN p}

\* RuleEngine(), as InitEngine, before the agents are constructed
InitAgents ==
    /\ rules = <<>>
    /\ rule_names = <<>>
    /\ owner = "engine"
    /\ env_thermal = DefaultThermalThreshold
    /\ thermal_threshold = DefaultThermalThreshold
    /\ humidity_threshold = DefaultHumidityThreshold
    /\ wind_threshold = DefaultWindThreshold
    /\ percepts \in AgentsPercepts
    /\ valid = "unset"
    /\ decision = NoCall
    /\ invoked = <<>>
    /\ Idle
    /\ peer = None
    /\ frames = <<>>

\* What the steps of the second agent leave alone
PeerFrame ==
    /\ UNCHANGED <<owner, thermal_threshold, humidity_threshold, wind_threshold,
                   env_thermal, percepts, valid, decision, invoked, log, previous,
                   frames>>
    /\ UNCHANGED runVars

\* SimpleReflexAgent() once more: a second agent with its engine and the
\* four default rules registered on it
PeerInit ==
    /\ owner = "agent"
    /\ peer = None
    /\ IF EngineOf(2) = 2
       THEN /\ peer' = [kind |-> "agent", rules |-> DefaultFuncs,
                        rule_names |-> DefaultRegistry]
            /\ UNCHANGED <<rules, rule_names>>
       ELSE /\ peer' = [kind |-> "agent", rules |-> <<>>, rule_names |-> <<>>]
            /\ rules' = rules \o DefaultFuncs
            /\ rule_names' = [f \in DOMAIN rule_names \cup DOMAIN DefaultRegistry |->
                                 IF f \in DOMAIN DefaultRegistry THEN DefaultRegistry[f]
                                 ELSE rule_names[f]]
    /\ PeerFrame

\* add_rule(name)(func) on the second agent
PeerAddRule(func, name) ==
    /\ peer # None
    /\ Len(SelectSeq(peer.rules, LAMBDA f : f \in CustomFuncs)) < MaxCustomRules
    /\ IF EngineOf(2) = 2
       THEN /\ peer' = [kind |-> "agent"] @@ Register(peer.rules, peer.rule_names, func, name)
            /\ UNCHANGED <<rules, rule_names>>
       ELSE /\ CustomCount < MaxCustomRules
            /\ rules' = Register(rules, rule_names, func, name).rules
            /\ rule_names' = Register(rules, rule_names, func, name).rule_names
            /\ peer' = peer
    /\ PeerFrame

NextAgents ==
    \/ AgentInit
    \/ \E f \in PeerFuncs : AddRule(f, "")
    \/ Decide
    \/ PeerInit
    \/ \E f \in PeerFuncs : PeerAddRule(f, "")

SpecAgents == InitAgents /\ [][NextAgents]_vars

\* ------------------------------------------------------------- validate
ValidLanduses == {"urban", "forest", "grassland"}

\* The fields whose None validate tests (timestamp is not among them)
CriticalFields == {"thermal", "humidity", "wind_speed", "vegetation_density",
                   "asset_proximity", "landuse", "latitude", "longitude"}

\* SimpleReflexAgent.validate: the first failing check returns False
Validate(p) ==
    IF \E f \in CriticalFields : IsNone(p, f) THEN FALSE
    ELSE IF Less(p.thermal, 200) \/ Greater(p.thermal, 400) THEN FALSE
    ELSE IF Less(p.humidity, 0) \/ Greater(p.humidity, 100) THEN FALSE
    ELSE IF Less(p.wind_speed, 0) \/ Greater(p.wind_speed, 200) THEN FALSE
    ELSE IF Less(p.vegetation_density, 0) \/ Greater(p.vegetation_density, 100) THEN FALSE
    ELSE IF Less(p.asset_proximity, 0) THEN FALSE
    ELSE IF Less(p.latitude, -90) \/ Greater(p.latitude, 90) THEN FALSE
    ELSE IF Less(p.longitude, -180) \/ Greater(p.longitude, 180) THEN FALSE
    ELSE IF p.landuse \notin ValidLanduses THEN FALSE
    ELSE TRUE

\* What validate logs with logger.error before it returns: the entry of the
\* check that made it return False, named after the field ("missing": the
\* None check)
ValidateLog(p) ==
    IF \E f \in CriticalFields : IsNone(p, f) THEN <<"missing">>
    ELSE IF Less(p.thermal, 200) \/ Greater(p.thermal, 400) THEN <<"thermal">>
    ELSE IF Less(p.humidity, 0) \/ Greater(p.humidity, 100) THEN <<"humidity">>
    ELSE IF Less(p.wind_speed, 0) \/ Greater(p.wind_speed, 200) THEN <<"wind_speed">>
    ELSE IF Less(p.vegetation_density, 0) \/ Greater(p.vegetation_density, 100)
    THEN <<"vegetation_density">>
    ELSE IF Less(p.asset_proximity, 0) THEN <<"asset_proximity">>
    ELSE IF Less(p.latitude, -90) \/ Greater(p.latitude, 90) THEN <<"latitude">>
    ELSE IF Less(p.longitude, -180) \/ Greater(p.longitude, 180) THEN <<"longitude">>
    ELSE IF p.landuse \notin ValidLanduses THEN <<"landuse">>
    ELSE <<>>

PyBool(b) == IF b THEN "True" ELSE "False"

\* Percepts of TestValidationGuardrails.test_valid_percepts
ValidBase ==
    [thermal |-> 320, humidity |-> 45, wind_speed |-> 12, landuse |-> "forest",
     vegetation_density |-> 80, asset_proximity |-> 50, timestamp |-> 0,
     latitude |-> 34, longitude |-> -118]

\* Values other than None that a caller assigns to a field of the percepts
FieldValues(f) ==
    CASE f = "thermal" -> {NaN, 199, 200, 400, 401}
      [] f = "humidity" -> {NaN, -1, 0, 100, 101}
      [] f = "wind_speed" -> {NaN, -1, 0, 200, 201}
      [] f = "vegetation_density" -> {NaN, -1, 0, 100, 101}
      [] f = "asset_proximity" -> {NaN, -1, 0, 500}
      [] f = "latitude" -> {NaN, -91, -90, 90, 91}
      [] f = "longitude" -> {NaN, -181, -180, 180, 181}
      [] f = "landuse" -> {"urban", "grassland", "space"}
      [] f = "timestamp" -> {}

\* Fields in which p differs from ValidBase
EditedFields(p) == {f \in PerceptFields : IsNone(p, f) \/ p[f] # ValidBase[f]}

\* percepts.f = v
Assign(p, f, v) == [g \in DOMAIN p \cup {f} |-> IF g = f THEN v ELSE p[g]]

InitValidate ==
    /\ rules = <<>>
    /\ rule_names = <<>>
    /\ owner = "engine"
    /\ env_thermal = DefaultThermalThreshold
    /\ thermal_threshold = DefaultThermalThreshold
    /\ humidity_threshold = DefaultHumidityThreshold
    /\ wind_threshold = DefaultWindThreshold
    /\ percepts = ValidBase
    /\ valid = "unset"
    /\ decision = NoCall
    /\ invoked = <<>>
    /\ Idle
    /\ peer = None
    /\ frames = <<>>

\* percepts.f = v on an EnvironmentalPercepts (a mutable dataclass)
SetField(f, v) ==
    /\ Cardinality(EditedFields(percepts) \cup {f}) <= MaxEdits
    /\ percepts' = Assign(percepts, f, v)
    /\ valid' = "unset"
    /\ UNCHANGED <<decision, invoked>>
    /\ UNCHANGED engineVars
    /\ UNCHANGED runVars
    /\ log' = <<>>
    /\ UNCHANGED otherVars

\* percepts.f = None
ClearField(f) ==
    /\ Cardinality(EditedFields(percepts) \cup {f}) <= MaxEdits
    /\ percepts' = Drop(percepts, f)
    /\ valid' = "unset"
    /\ UNCHANGED <<decision, invoked>>
    /\ UNCHANGED engineVars
    /\ UNCHANGED runVars
    /\ log' = <<>>
    /\ UNCHANGED otherVars

\* agent.validate(percepts), called directly
CallValidate ==
    /\ valid = "unset"
    /\ valid' = PyBool(Validate(percepts))
    /\ UNCHANGED <<percepts, decision, invoked>>
    /\ UNCHANGED engineVars
    /\ UNCHANGED runVars
    /\ log' = ValidateLog(percepts)
    /\ UNCHANGED otherVars

NextValidate ==
    \/ \E f \in PerceptFields : \E v \in FieldValues(f) : SetField(f, v)
    \/ \E f \in PerceptFields : ClearField(f)
    \/ CallValidate

SpecValidate == InitValidate /\ [][NextValidate]_vars

\* -------------------------------------------------------------- perceive
\* Time in minutes; the clock reading of datetime.now(UTC) during perceive
Now == 24 * 60
\* timedelta(hours=h)
Hours(h) == h * 60
\* default of max_thermal_age_hours
DefaultMaxThermalAge == 6

\* The value of thermal_nearby["acquisition"]: absent/None/"" ("missing"), a
\* value fromisoformat rejects ("garbled"), an ISO timestamp without offset
\* ("naive", wall-clock reading t taken as UTC) or with one ("aware").
Acquisitions ==
    {[kind |-> "missing"], [kind |-> "garbled"]}
    \cup [kind : {"naive", "aware"},
          t : {Now - Hours(2), Now - Hours(6), Now - Hours(6) - 1, Now - Hours(10)}]

\* What get_thermal_activity_nearby answers: None or a record; a record may
\* carry the optional key hours_since_detected
NearbyAnswers ==
    {None} \cup [kind : {"record"}, confidence : {50, 80}, acquisition : Acquisitions]
           \cup [kind : {"record"}, confidence : {50, 80},
                 acquisition : {[kind |-> "missing"],
                                [kind |-> "aware", t |-> Now - Hours(2)],
                                [kind |-> "aware", t |-> Now - Hours(10)]},
                 hours_since_detected : {3, 10}]

\* ParseAcquisition reading a value it cannot parse as the current time
ParseAcquisition_Tolerant(a) == IF a.kind = "garbled" THEN [kind |-> "aware", t |-> Now] ELSE a

\* datetime.fromisoformat(acquisition) with `except (ValueError, TypeError)`
ParseAcquisition(a) == IF a.kind = "garbled" THEN None ELSE a

\* Fusion overriding with the mean of baseline and threshold
Fusion_Blend(thermal, thermal_nearby, max_thermal_age_hours, now, threshold) ==
    IF /\ thermal_nearby # None
       /\ thermal_nearby.confidence > 50
       /\ thermal_nearby.acquisition.kind \in {"naive", "aware"}
       /\ now - thermal_nearby.acquisition.t <= Hours(max_thermal_age_hours)
    THEN [kind |-> "ok", thermal |-> (thermal + threshold) \div 2, fused |-> "override"]
    ELSE [kind |-> "ok", thermal |-> thermal, fused |-> "baseline"]

\* Temporal fusion of perceive: the thermal value to use, or Raised when
\* datetime.now(UTC) - acquisition_time raises TypeError (naive timestamp)
Fusion(thermal, thermal_nearby, max_thermal_age_hours, now, threshold) ==
    IF /\ thermal_nearby # None
       /\ thermal_nearby.confidence > 50
       /\ thermal_nearby.acquisition.kind # "missing"
    THEN LET acquisition_time == ParseAcquisition(thermal_nearby.acquisition)
         IN IF acquisition_time = None
            THEN [kind |-> "ok", thermal |-> thermal, fused |-> "baseline"]
            ELSE IF acquisition_time.kind = "naive" THEN Raised
            ELSE IF now - acquisition_time.t <= Hours(max_thermal_age_hours)
            THEN [kind |-> "ok", thermal |-> threshold, fused |-> "override"]
            ELSE [kind |-> "ok", thermal |-> thermal, fused |-> "baseline"]
    ELSE [kind |-> "ok", thermal |-> thermal, fused |-> "baseline"]

\* "hours_since_detected" in thermal_nearby and
\* thermal_nearby["hours_since_detected"] > max_thermal_age_hours
ReportedStale(thermal_nearby, max_thermal_age_hours) ==
    /\ "hours_since_detected" \in DOMAIN thermal_nearby
    /\ thermal_nearby.hours_since_detected > max_thermal_age_hours

\* The logger.info entries of the temporal fusion: "override" (Using nearby
\* thermal activity), "stale" (Ignoring stale thermal activity)
FusionLog(thermal_nearby, max_thermal_age_hours, now) ==
    IF /\ thermal_nearby # None
       /\ thermal_nearby.confidence > 50
       /\ thermal_nearby.acquisition.kind # "missing"
    THEN LET acquisition_time == ParseAcquisition(thermal_nearby.acquisition)
         IN IF acquisition_time # None /\ acquisition_time.kind = "naive" THEN <<>>
            ELSE IF /\ acquisition_time # None
                    /\ now - acquisition_time.t <= Hours(max_thermal_age_hours)
            THEN <<"override">>
            ELSE IF ReportedStale(thermal_nearby, max_thermal_age_hours)
            THEN <<"stale">>
            ELSE <<>>
    ELSE IF /\ thermal_nearby # None
            /\ ReportedStale(thermal_nearby, max_thermal_age_hours)
    THEN <<"stale">>
    ELSE <<>>

\* What perceive logs about the hotspot record, and "error" when it raises
\* (logger.error of its except clause)
PerceiveLog(max_thermal_age_hours, ans, now, threshold) ==
    (IF ans.fail \in {1, 2} THEN <<>>
     ELSE FusionLog(ans.nearby, max_thermal_age_hours, now))
    \o (IF \/ ans.fail > 0
           \/ Fusion(ans.thermal, ans.nearby, max_thermal_age_hours, now, threshold).kind = "raise"
        THEN <<"error">> ELSE <<>>)

\* The provider capabilities in the order perceive calls them
ProviderCalls == <<"get_thermal_data", "get_thermal_activity_nearby",
                   "get_land_cover", "get_weather_data",
                   "get_vegetation_density", "get_asset_proximity">>

\* Perceive going on with the provider's other answers when a call fails
Perceive_Swallow(lat, lon, max_thermal_age_hours, ans, now, threshold) ==
    LET fusion == Fusion(ans.thermal, ans.nearby, max_thermal_age_hours, now, threshold)
    IN IF fusion.kind = "raise"
       THEN [kind |-> "raise", calls |-> SubSeq(ProviderCalls, 1, 2), fused |-> "none"]
       ELSE [kind |-> "percepts",
             calls |-> ProviderCalls,
             fused |-> fusion.fused,
             percepts |->
                 [thermal |-> fusion.thermal,
                  humidity |-> ans.humidity,
                  wind_speed |-> ans.wind_speed,
                  landuse |-> ans.land_cover,
                  vegetation_density |-> ans.vegetation,
                  asset_proximity |-> ans.assets,
                  timestamp |-> now,
                  latitude |-> lat,
                  longitude |-> lon]]

\* SimpleReflexAgent.perceive.  ans: what the provider answers; ans.fail = k > 0:
\* the k-th provider call raises.  Returns the percepts or Raised, with the
\* provider calls made.
Perceive(lat, lon, max_thermal_age_hours, ans, now, threshold) ==
    LET fusion == Fusion(ans.thermal, ans.nearby, max_thermal_age_hours, now, threshold)
    IN IF ans.fail > 0
       THEN [kind |-> "raise", calls |-> SubSeq(ProviderCalls, 1, ans.fail),
             fused |-> IF ans.fail > 2 /\ fusion.kind = "ok" THEN fusion.fused ELSE "none"]
       ELSE IF fusion.kind = "raise"
       THEN [kind |-> "raise", calls |-> SubSeq(ProviderCalls, 1, 2), fused |-> "none"]
       ELSE [kind |-> "percepts",
             calls |-> ProviderCalls,
             fused |-> fusion.fused,
             percepts |->
                 [thermal |-> fusion.thermal,
                  humidity |-> ans.humidity,
                  wind_speed |-> ans.wind_speed,
                  landuse |-> ans.land_cover,
                  vegetation_density |-> ans.vegetation,
                  asset_proximity |-> ans.assets,
                  timestamp |-> now,
                  latitude |-> lat,
                  longitude |-> lon]]

\* Answers of the data provider in one perceive
ProviderAnswers ==
    [thermal : {150, 290, 340}, nearby : NearbyAnswers,
     land_cover : {"forest", "urban", "space"},
     humidity : {10, 45, 150}, wind_speed : {12, 30},
     vegetation : {10, 90}, assets : {10, 150}, fail : {0}]
    \cup [thermal : {340}, nearby : {None}, land_cover : {"forest"},
          humidity : {10}, wind_speed : {30}, vegetation : {90},
          assets : {10}, fail : 1..Len(ProviderCalls)]

\* THERMAL_THRESHOLD of the environment: unset (the default) or set
ThermalSettings == {320, DefaultThermalThreshold}

\* Locations handed to run/perceive
Locations == {<<34, -118>>, <<95, -118>>}

\* max_thermal_age_hours handed to perceive directly
MaxThermalAges == {DefaultMaxThermalAge, 2, 10}

\* ------------------------------------------------------------------- run
\* SimpleReflexAgent() with its default rules, no call yet
Init ==
    /\ rules = DefaultFuncs
    /\ rule_names = [f \in {DefaultFuncs[i] : i \in 1..4} |->
                       DefaultNames[CHOOSE i \in 1..4 : DefaultFuncs[i] = f]]
    /\ owner = "agent"
    /\ env_thermal \in ThermalSettings
    /\ thermal_threshold = env_thermal
    /\ humidity_threshold = DefaultHumidityThreshold
    /\ wind_threshold = DefaultWindThreshold
    /\ percepts = None
    /\ valid = "unset"
    /\ decision = NoCall
    /\ invoked = <<>>
    /\ Idle
    /\ peer = None
    /\ frames = <<>>

\* run(lat, lon) is called and runs its perceive stage
RunPerceive(lat, lon, ans) ==
    /\ pc = "idle"
    /\ LET r == Perceive(lat, lon, DefaultMaxThermalAge, ans, Now, env_thermal)
       IN /\ args' = [op |-> "run", lat |-> lat, lon |-> lon,
                      max_thermal_age_hours |-> DefaultMaxThermalAge]
          /\ provider' = ans
          /\ calls' = <<"perceive">> \o r.calls
          /\ fused' = r.fused
          /\ percepts' = IF r.kind = "percepts" THEN r.percepts ELSE None
          /\ pc' = IF r.kind = "percepts" THEN "validate" ELSE "raised"
          /\ result' = IF r.kind = "percepts" THEN NoCall ELSE Raised
    /\ valid' = "unset"
    /\ decision' = NoCall
    /\ invoked' = <<>>
    /\ acted' = <<>>
    /\ UNCHANGED engineVars
    /\ log' = PerceiveLog(DefaultMaxThermalAge, ans, Now, env_thermal)
    /\ UNCHANGED otherVars

\* RunValidate without the early return on invalid percepts
RunValidate_NoAbort ==
    /\ pc = "validate"
    /\ calls' = Append(calls, "validate")
    /\ valid' = PyBool(Validate(percepts))
    /\ pc' = "decide"
    /\ UNCHANGED <<percepts, decision, invoked, args, provider, fused, acted, result>>
    /\ UNCHANGED engineVars
    /\ log' = log \o ValidateLog(percepts)
    /\ UNCHANGED otherVars

\* run: `if not self.validate(percepts): return None`
RunValidate ==
    /\ pc = "validate"
    /\ calls' = Append(calls, "validate")
    /\ valid' = PyBool(Validate(percepts))
    /\ pc' = IF Validate(percepts) THEN "decide" ELSE "aborted"
    /\ result' = IF Validate(percepts) THEN result ELSE None
    /\ UNCHANGED <<percepts, decision, invoked, args, provider, fused, acted>>
    /\ UNCHANGED engineVars
    /\ log' = log \o ValidateLog(percepts)
    /\ UNCHANGED otherVars

\* run: decision = self.decide(percepts)
RunDecide ==
    /\ pc = "decide"
    /\ calls' = Append(calls, "decide")
    /\ decision' = Evaluate(rules, rule_names, percepts, Config)
    /\ invoked' = EvalRules(rules, rule_names, percepts, Config).invoked
    /\ pc' = IF decision'.kind = "decision" THEN "act" ELSE "raised"
    /\ result' = IF decision'.kind = "decision" THEN result ELSE Raised
    /\ UNCHANGED <<percepts, valid, args, provider, fused, acted>>
    /\ UNCHANGED engineVars
    /\ UNCHANGED log
    /\ UNCHANGED otherVars

\* RunAct without the call of act
RunAct_NoAct ==
    /\ pc = "act"
    /\ result' = decision
    /\ pc' = "done"
    /\ UNCHANGED <<percepts, valid, decision, invoked, args, provider, fused,
                   calls, acted>>
    /\ UNCHANGED engineVars
    /\ UNCHANGED log
    /\ UNCHANGED otherVars

\* run: self.act(decision); return decision
RunAct ==
    /\ pc = "act"
    /\ calls' = Append(calls, "act")
    /\ acted' = Append(acted, decision)
    /\ result' = decision
    /\ pc' = "done"
    /\ UNCHANGED <<percepts, valid, decision, invoked, args, provider, fused>>
    /\ UNCHANGED engineVars
    /\ UNCHANGED log
    /\ UNCHANGED otherVars

\* agent.perceive(lat, lon, max_thermal_age_hours), called directly
CallPerceive(lat, lon, max_thermal_age_hours, ans) ==
    /\ pc = "idle"
    /\ LET r == Perceive(lat, lon, max_thermal_age_hours, ans, Now, env_thermal)
       IN /\ args' = [op |-> "perceive", lat |-> lat, lon |-> lon,
                      max_thermal_age_hours |-> max_thermal_age_hours]
          /\ provider' = ans
          /\ calls' = <<"perceive">> \o r.calls
          /\ fused' = r.fused
          /\ percepts' = IF r.kind = "percepts" THEN r.percepts ELSE None
          /\ pc' = IF r.kind = "percepts" THEN "perceived" ELSE "raised"
          /\ result' = IF r.kind = "percepts" THEN NoCall ELSE Raised
    /\ valid' = "unset"
    /\ decision' = NoCall
    /\ invoked' = <<>>
    /\ acted' = <<>>
    /\ UNCHANGED engineVars
    /\ log' = PerceiveLog(max_thermal_age_hours, ans, Now, env_thermal)
    /\ UNCHANGED otherVars

\* The call has returned or raised: nothing of it is kept (no memory across
\* cycles), the agent waits for the next call
Return ==
    /\ pc \in {"done", "aborted", "raised", "perceived"}
    /\ pc' = "idle"
    /\ args' = None
    /\ provider' = None
    /\ calls' = <<>>
    /\ fused' = "none"
    /\ acted' = <<>>
    /\ result' = NoCall
    /\ percepts' = None
    /\ valid' = "unset"
    /\ decision' = NoCall
    /\ invoked' = <<>>
    /\ UNCHANGED engineVars
    /\ log' = <<>>
    /\ UNCHANGED otherVars

Next ==
    \/ Return
    \/ /\ pc = "idle"
       /\ \E l \in Locations : \E ans \in ProviderAnswers : RunPerceive(l[1], l[2], ans)
    \/ RunValidate
    \/ RunDecide
    \/ RunAct
    \/ /\ pc = "idle"
       /\ \E l \in Locations : \E m \in MaxThermalAges : \E ans \in ProviderAnswers :
             CallPerceive(l[1], l[2], m, ans)

Spec == Init /\ [][Next]_vars

\* ------------------------------------------------- run() calls in progress together
\* Invocations of run() on one agent, executed by threads that interleave
\* between the stages
Calls == 1..MaxCalls

\* Locals of an invocation that has not started
IdleFrame == [pc |-> "idle", args |-> None, provider |-> None, percepts |-> None,
              valid |-> "unset", decision |-> NoCall, acted |-> <<>>,
              result |-> NoCall]

\* LocalsOf with one place for the percepts and the decision of all invocations
LocalsOf_Shared(c) == 1

\* Where invocation c keeps `percepts` and `decision`: locals of its own frame
LocalsOf(c) == c

\* Provider answers of the interleaved calls
ConcAnswers ==
    LET high == [thermal |-> 340, nearby |-> None, land_cover |-> "forest",
                 humidity |-> 10, wind_speed |-> 30, vegetation |-> 90,
                 assets |-> 10, fail |-> 0]
    IN {high,
        [high EXCEPT !.thermal = 290, !.humidity = 45, !.land_cover = "urban"],
        [high EXCEPT !.land_cover = "space"],
        [high EXCEPT !.fail = 3],
        [high EXCEPT !.thermal = 290,
                     !.nearby = [kind |-> "record", confidence |-> 80,
                                 acquisition |-> [kind |-> "aware", t |-> Now - Hours(2)]]]}

\* SimpleReflexAgent() with its default rules, MaxCalls invocations to come
InitConcurrent ==
    /\ rules = DefaultFuncs
    /\ rule_names = [f \in {DefaultFuncs[i] : i \in 1..4} |->
                       DefaultNames[CHOOSE i \in 1..4 : DefaultFuncs[i] = f]]
    /\ owner = "agent"
    /\ env_thermal = DefaultThermalThreshold
    /\ thermal_threshold = env_thermal
    /\ humidity_threshold = DefaultHumidityThreshold
    /\ wind_threshold = DefaultWindThreshold
    /\ percepts = None
    /\ valid = "unset"
    /\ decision = NoCall
    /\ invoked = <<>>
    /\ Idle
    /\ peer = None
    /\ frames = [c \in Calls |-> IdleFrame]

\* What the steps of the interleaved invocations leave alone
ConcFrame ==
    /\ UNCHANGED <<percepts, valid, decision, invoked, log, previous, peer>>
    /\ UNCHANGED engineVars
    /\ UNCHANGED runVars

\* run(lat, lon) of invocation c: percepts = self.perceive(lat, lon)
ConcPerceive(c, lat, lon, ans) ==
    /\ frames[c].pc = "idle"
    /\ LET r == Perceive(lat, lon, DefaultMaxThermalAge, ans, Now, env_thermal)
           started == [frames EXCEPT
                         ![c].args = [op |-> "run", lat |-> lat, lon |-> lon,
                                      max_thermal_age_hours |-> DefaultMaxThermalAge],
                         ![c].provider = ans,
                         ![c].pc = IF r.kind = "percepts" THEN "validate" ELSE "raised",
                         ![c].result = IF r.kind = "percepts" THEN NoCall ELSE Raised]
       IN frames' = IF r.kind = "percepts"
                    THEN [started EXCEPT ![LocalsOf(c)].percepts = r.percepts]
                    ELSE started
    /\ ConcFrame

\* run of invocation c: `if not self.validate(percepts): return None`
ConcValidate(c) ==
    /\ frames[c].pc = "validate"
    /\ LET ok == Validate(frames[LocalsOf(c)].percepts)
       IN frames' = [frames EXCEPT ![c].valid = PyBool(ok),
                                   ![c].pc = IF ok THEN "decide" ELSE "aborted",
                                   ![c].result = IF ok THEN @ ELSE None]
    /\ ConcFrame

\* run of invocation c: decision = self.decide(percepts)
ConcDecide(c) ==
    /\ frames[c].pc = "decide"
    /\ LET d == Evaluate(rules, rule_names, frames[LocalsOf(c)].percepts, Config)
           stepped == [frames EXCEPT
                         ![c].pc = IF d.kind = "decision" THEN "act" ELSE "raised",
                         ![c].result = IF d.kind = "decision" THEN @ ELSE Raised]
       IN frames' = [stepped EXCEPT ![LocalsOf(c)].decision = d]
    /\ ConcFrame

\* run of invocation c: self.act(decision); return decision
ConcAct(c) ==
    /\ frames[c].pc = "act"
    /\ frames' = [frames EXCEPT ![c].acted = Append(@, frames[LocalsOf(c)].decision),
                                ![c].result = frames[LocalsOf(c)].decision,
                                ![c].pc = "done"]
    /\ ConcFrame

\* Invocation c has returned or raised; its thread may call run again
ConcReturn(c) ==
    /\ frames[c].pc \in {"done", "aborted", "raised"}
    /\ frames' = [frames EXCEPT ![c] = IdleFrame]
    /\ ConcFrame

NextConcurrent ==
    \E c \in Calls :
        \/ \E l \in Locations : \E ans \in ConcAnswers : ConcPerceive(c, l[1], l[2], ans)
        \/ ConcValidate(c)
        \/ ConcDecide(c)
        \/ ConcAct(c)
        \/ ConcReturn(c)

SpecConcurrent == InitConcurrent /\ [][NextConcurrent]_vars

\* ================================================================= claims
Range(q) == {q[i] : i \in 1..Len(q)}

DefaultsRegistered ==
    /\ owner = "agent"
    /\ thermal_threshold = DefaultThermalThreshold
    /\ humidity_threshold = DefaultHumidityThreshold
    /\ wind_threshold = DefaultWindThreshold

\* Every registered rule answers within its declared type Optional[str]
RulesTyped == \A i \in 1..Len(rules) : RuleCall(rules[i], percepts, Config).kind # "obj"

RaisingRules == {i \in 1..Len(rules) : RuleCall(rules[i], percepts, Config).kind = "raise"}

HotDryForest ==
    /\ {"thermal", "landuse", "humidity"} \subseteq DOMAIN percepts
    /\ percepts.thermal > 330
    /\ percepts.landuse = "forest"
    /\ percepts.humidity < 30

KeywordRisk(msgs) ==
    IF \E m \in msgs : StrIn(KwCritical, StrUpper(m)) THEN "CRITICAL"
    ELSE IF \E m \in msgs : StrIn(KwHigh, StrUpper(m)) THEN "HIGH"
    ELSE IF \E m \in msgs : StrIn(KwMedium, StrUpper(m)) THEN "MEDIUM"
    ELSE "LOW"

\* Messages of the registered rules that fire on the current percepts
FiredMessages ==
    {RuleCall(f, percepts, Config).s :
        f \in {g \in Range(rules) : /\ RuleCall(g, percepts, Config).kind = "str"
                                    /\ Truthy(RuleCall(g, percepts, Config))}}

\* C6: the risk_level of a decision is the highest-priority keyword among
\* CRITICAL, HIGH, MEDIUM that occurs (as a case-insensitive substring) in the
\* message of any triggered rule, whatever the registration order; it is LOW
\* when no triggered message holds a keyword or no rule triggered.
C6_RiskIsHighestKeyword ==
    decision.kind = "decision" => decision.risk_level = KeywordRisk(FiredMessages)

C6_Witness ==
    /\ decision.kind = "decision"
    /\ rules = <<"high_temp_rule", "lower_critical_rule">>
    /\ Len(decision.triggered_rules) = 2
    /\ decision.risk_level = "CRITICAL"

\* the literals 0.3, 0.6, 0.9 and the double below 0.9, 0x1.cccccccccccccp-1
Lit03 == [hi |-> 40265318, lo |-> 53687091, e |-> -54]
Lit06 == [hi |-> 40265318, lo |-> 53687091, e |-> -53]
Lit09 == [hi |-> 60397977, lo |-> 80530637, e |-> -53]
Below09 == [hi |-> 60397977, lo |-> 80530636, e |-> -53]

\* C7 as stated: the confidence of a decision with n triggered rules is
\* 0.0, 0.3, 0.6, 0.9 for n = 0..3 and 1.0 for n >= 4.
C7_ConfidenceAsClaimed ==
    decision.kind = "decision"
    => LET n == Len(decision.triggered_rules)
       IN decision.confidence =
            CASE n = 0 -> DZero [] n = 1 -> Lit03 [] n = 2 -> Lit06
              [] n = 3 -> Lit09 [] OTHER -> DOne

\* C7 amended: the confidence is the double product n * 0.3 capped at 1.0,
\* which is 0.0, 0.3, 0.6 for n = 0..2, 0.8999999999999999 (the double just
\* below 0.9) for n = 3 and 1.0 for n >= 4; it always lies in [0, 1].
C7_ConfidenceIsCappedProduct ==
    decision.kind = "decision"
    => LET n == Len(decision.triggered_rules)
       IN /\ decision.confidence =
               CASE n = 0 -> DZero [] n = 1 -> Lit03 [] n = 2 -> Lit06
                 [] n = 3 -> Below09 [] OTHER -> DOne
          /\ DoubleLe(DZero, decision.confidence)
          /\ DoubleLe(decision.confidence, DOne)

C7_Witness ==
    /\ decision.kind = "decision"
    /\ Len(decision.triggered_rules) >= 5
    /\ decision.confidence = DOne

\* C8: an evaluate in which no rule triggers (also with no rule registered)
\* returns a decision with risk_level LOW, alert_message None and confidence
\* 0.0; and the alert_message of a decision is None only when its
\* triggered_rules are empty.
C8_NoTriggerIsLow ==
    /\ (decision # NoCall
        /\ \A i \in 1..Len(rules) : ~Truthy(RuleCall(rules[i], percepts, Config)))
       => /\ decision.kind = "decision"
          /\ decision.triggered_rules = <<>>
          /\ decision.risk_level = "LOW"
          /\ decision.alert_message = None
          /\ decision.confidence = DZero
    /\ (decision.kind = "decision" /\ decision.alert_message = None)
       => decision.triggered_rules = <<>>

C8_Witness ==
    /\ decision.kind = "decision"
    /\ Len(rules) = 6
    /\ decision.triggered_rules = <<>>
    /\ decision.risk_level = "LOW"
    /\ decision.alert_message = None
    /\ decision.confidence = DZero

\* What the guardrail is stated to accept
InClosed(x, lo, hi) == x # NaN /\ lo <= x /\ x <= hi
WithinRanges(p) ==
    /\ CriticalFields \subseteq DOMAIN p
    /\ InClosed(p.thermal, 200, 400)
    /\ InClosed(p.humidity, 0, 100)
    /\ InClosed(p.wind_speed, 0, 200)
    /\ InClosed(p.vegetation_density, 0, 100)
    /\ p.asset_proximity # NaN /\ p.asset_proximity >= 0
    /\ InClosed(p.latitude, -90, 90)
    /\ InClosed(p.longitude, -180, 180)
    /\ p.landuse \in {"urban", "forest", "grassland"}

\* C4: validate(percepts) returns true if and only if thermal, humidity,
\* wind_speed, vegetation_density, asset_proximity, landuse, latitude and
\* longitude are all present and thermal is in [200, 400], humidity in
\* [0, 100], wind_speed in [0, 200], vegetation_density in [0, 1],
\* asset_proximity >= 0, latitude in [-90, 90], longitude in [-180, 180] and
\* landuse is urban, forest or grassland (bounds inclusive; every single
\* violation makes the result false).
C4_ValidateIffWithinRanges ==
    valid # "unset" => (valid = "True" <=> WithinRanges(percepts))

\* The same over percepts without a NaN field (the guardrail's behaviour on
\* every number that can be compared)
C4_ValidateIffWithinRangesNoNaN ==
    (valid # "unset" /\ \A f \in DOMAIN percepts : f = "landuse" \/ percepts[f] # NaN)
    => (valid = "True" <=> WithinRanges(percepts))

InRun == args # None /\ args.op = "run"

\* The stages of run among the recorded calls
StageOrder == <<"perceive", "validate", "decide", "act">>
Stages(cs) == SelectSeq(cs, LAMBDA c : c \in Range(StageOrder))

\* C2: in every run(lat, lon) in which validate returns false, neither
\* decide (no rule is evaluated) nor act is invoked, and the run returns None
\* to its caller instead of raising.
C2_InvalidPerceptsAbort ==
    (InRun /\ valid = "False")
    => /\ pc = "aborted"
       /\ result = None
       /\ Stages(calls) = <<"perceive", "validate">>
       /\ decision = NoCall
       /\ invoked = <<>>
       /\ acted = <<>>

C2_Witness ==
    /\ InRun /\ valid = "False"
    /\ pc = "aborted"
    /\ result = None
    /\ percepts.landuse = "space"
    /\ percepts.thermal = 340

\* C3: in every run(lat, lon) whose percepts pass validation, the stages
\* happen once each in the order perceive, validate, decide, act; act receives
\* the decision that decide produced, and run returns that same decision.
C3_ValidRunStagesInOrder ==
    (InRun /\ valid = "True")
    => /\ pc \in {"decide", "act", "done"}
       /\ Stages(calls) = SubSeq(StageOrder, 1,
                                 CASE pc = "decide" -> 2 [] pc = "act" -> 3 [] OTHER -> 4)
       /\ pc = "decide" => decision = NoCall /\ acted = <<>> /\ result = NoCall
       /\ pc = "act" => decision.kind = "decision" /\ acted = <<>> /\ result = NoCall
       /\ pc = "done" => /\ decision.kind = "decision"
                         /\ acted = <<decision>>
                         /\ result = decision

C3_Witness ==
    /\ InRun /\ valid = "True"
    /\ pc = "done"
    /\ calls[Len(calls)] = "act"
    /\ result.risk_level = "CRITICAL"
    /\ acted = <<result>>

\* A hotspot record with a timestamp that parses, with or without an offset
HasTimestamp(rec) == rec # None /\ rec.acquisition.kind \in {"naive", "aware"}

\* now - acquisition, in minutes
Age(rec) == Now - rec.acquisition.t

\* A perceive in which every provider call answered
Perceiving == provider # None /\ provider.fail = 0

\* C9: perceive replaces the baseline thermal reading by the configured
\* threshold value if and only if a hotspot record exists, its confidence is
\* strictly greater than 0.5, its acquisition timestamp is present and parses,
\* and now - acquisition <= max_thermal_age_hours; in every other case the
\* thermal field of the percepts is the baseline reading.
C9_OverrideIffConfidentAndFresh ==
    Perceiving
    => IF /\ HasTimestamp(provider.nearby)
          /\ provider.nearby.confidence > 50
          /\ Age(provider.nearby) <= Hours(args.max_thermal_age_hours)
       THEN fused = "override" /\ percepts # None /\ percepts.thermal = env_thermal
       ELSE fused = "baseline" /\ percepts # None /\ percepts.thermal = provider.thermal

\* The statement of C9 for records whose timestamp carries an offset
C9_WithOffset ==
    (Perceiving /\ (provider.nearby # None => provider.nearby.acquisition.kind # "naive"))
    => C9_OverrideIffConfidentAndFresh

\* The outcome of the current call so far is the one of the same call with
\* the provider answers ans
SameOutcomeAs(ans) ==
    LET r == Perceive(args.lat, args.lon, args.max_thermal_age_hours, ans, Now, env_thermal)
        d == Evaluate(rules, rule_names, r.percepts, Config)
    IN /\ pc # "raised"
       /\ percepts = r.percepts
       /\ valid # "unset" => valid = PyBool(Validate(r.percepts))
       /\ decision # NoCall => decision = d
       /\ pc = "done" => result = d
       /\ pc = "aborted" => result = None

\* C10: a hotspot record whose age exceeds max_thermal_age_hours never
\* influences the outcome, whatever its confidence: the perceived thermal value
\* and the decision of the run are those of the same run with no hotspot
\* record.
C10_StaleRecordIgnored ==
    (Perceiving /\ HasTimestamp(provider.nearby)
       /\ Age(provider.nearby) > Hours(args.max_thermal_age_hours))
    => SameOutcomeAs([provider EXCEPT !.nearby = None])

\* The statement of C10 for records whose timestamp carries an offset
C10_WithOffset ==
    (Perceiving /\ provider.nearby # None /\ provider.nearby.acquisition.kind = "aware")
    => C10_StaleRecordIgnored

\* C11: a hotspot record whose acquisition timestamp is missing or cannot be
\* parsed counts as no record, whatever its confidence: perceive completes,
\* the thermal field is the baseline reading and the percepts (and what the
\* run makes of them) are those of the same call with no record.
C11_UnusableTimestampIsNoRecord ==
    (Perceiving /\ provider.nearby # None
        /\ provider.nearby.acquisition.kind \in {"missing", "garbled"})
    => /\ fused = "baseline"
       /\ percepts # None
       /\ percepts.thermal = provider.thermal
       /\ SameOutcomeAs([provider EXCEPT !.nearby = None])

C11_Witness ==
    /\ Perceiving
    /\ provider.nearby # None
    /\ provider.nearby.acquisition.kind = "garbled"
    /\ provider.nearby.confidence = 80
    /\ pc = "perceived"
    /\ percepts.thermal = 340

\* C12: the thermal value that perceive puts into the percepts is either the
\* baseline reading or the override constant, for every baseline and every
\* hotspot record (any confidence, age and timestamp state).
C12_ThermalIsBaselineOrOverride ==
    (provider # None /\ percepts # None)
    => /\ fused = "override" => percepts.thermal = env_thermal
       /\ fused = "baseline" => percepts.thermal = provider.thermal
       /\ fused \in {"override", "baseline"}

C12_Witness ==
    /\ provider # None /\ percepts # None
    /\ fused = "override"
    /\ provider.thermal = 150
    /\ percepts.thermal = DefaultThermalThreshold
    /\ provider.nearby.acquisition.t = Now - Hours(6)

NoDuplicates(q) == \A i, j \in 1..Len(q) : q[i] = q[j] => i = j

\* C13: when a data-provider call of perceive fails, perceive and run fail to
\* the caller: no percepts are returned, validate, decide and act are not
\* invoked, there is no decision, and no provider capability is called twice.
C13_ProviderFailureIsFatal ==
    (provider # None /\ provider.fail > 0)
    => /\ pc = "raised"
       /\ result = Raised
       /\ percepts = None
       /\ calls = <<"perceive">> \o SubSeq(ProviderCalls, 1, provider.fail)
       /\ NoDuplicates(calls)
       /\ valid = "unset"
       /\ decision = NoCall
       /\ invoked = <<>>
       /\ acted = <<>>

C13_Witness ==
    /\ InRun
    /\ provider.fail = 4
    /\ pc = "raised"
    /\ calls[Len(calls)] = "get_weather_data"
    /\ decision = NoCall

AddRuleStep == owner' = owner /\ rules' # rules

\* What C15 states of such a step
AppendsOneKeepingEarlier ==
    /\ Len(rules') = Len(rules) + 1
    /\ SubSeq(rules', 1, Len(rules)) = rules
    /\ \A i \in 1..Len(rules) :
          /\ rule_names'[rules[i]] = rule_names[rules[i]]
          /\ RuleCall(rules'[i], percepts', Config') = RuleCall(rules[i], percepts, Config)
    /\ EvalRules(rules', rule_names', percepts', Config').invoked = rules'

\* C15: registering a rule through add_rule, before or after evaluate/decide
\* calls, appends exactly one rule at the end of the engine's rule list: the
\* count grows by one, the earlier rules keep their position, name and
\* behaviour, and a later evaluate invokes the new rule after all earlier ones.
C15_AddRuleAppendsOne == [][AddRuleStep => AppendsOneKeepingEarlier]_vars

\* The statement of C15 for the registration of a function that is not yet
\* in the rule list, or under the name it already has
C15_NewFunction ==
    [][(AddRuleStep /\ (rules'[Len(rules')] \in Range(rules)
                          => rule_names'[rules'[Len(rules')]] = rule_names[rules'[Len(rules')]]))
       => AppendsOneKeepingEarlier]_vars

\* The table of the default rule set: does the rule named n fire on p
Tabulated(n, p) ==
    CASE n = "high_temperature_forest" ->
            p.thermal > 330 /\ p.landuse = "forest" /\ p.humidity < 30
      [] n = "extreme_weather" ->
            p.wind_speed > 15 /\ p.humidity < 20 /\ p.thermal > 315
      [] n = "vegetation_thermal" ->
            p.vegetation_density > 60 /\ p.thermal > 325 /\ p.humidity < 40
      [] n = "asset_proximity" ->
            p.asset_proximity < 50 /\ p.thermal > 315 /\ p.landuse \in {"forest", "grassland"}

TableNames == <<"high_temperature_forest", "extreme_weather",
                "vegetation_thermal", "asset_proximity">>

ScenarioHigh ==
    [thermal |-> 340, humidity |-> 10, wind_speed |-> 30, landuse |-> "forest",
     vegetation_density |-> 95, asset_proximity |-> 10, timestamp |-> 0,
     latitude |-> 40, longitude |-> -120]

ScenarioLow ==
    [thermal |-> 280, humidity |-> 80, wind_speed |-> 5, landuse |-> "urban",
     vegetation_density |-> 10, asset_proximity |-> 5, timestamp |-> 0,
     latitude |-> 40, longitude |-> -120]

\* C16: a newly constructed agent holds exactly the four default rules in the
\* order high_temperature_forest, extreme_weather, vegetation_thermal,
\* asset_proximity, and with the default thresholds each fires exactly when
\* its tabulated condition holds (strict comparisons); the high-risk scenario
\* fires all four and the low-risk scenario none.
C16_DefaultRulesAsTabulated ==
    owner = "agent"
    => /\ Len(rules) = 4
       /\ [i \in 1..4 |-> rule_names[rules[i]]] = TableNames
       /\ decision # NoCall
          => /\ decision.kind = "decision"
             /\ decision.triggered_rules =
                   SelectSeq(TableNames, LAMBDA n : Tabulated(n, percepts))
             /\ percepts = ScenarioHigh => decision.triggered_rules = TableNames
             /\ percepts = ScenarioLow => decision.triggered_rules = <<>>
             /\ percepts.thermal = 330
                   => "high_temperature_forest" \notin Range(decision.triggered_rules)
             /\ percepts.asset_proximity = 50
                   => "asset_proximity" \notin Range(decision.triggered_rules)

C16_Witness ==
    /\ owner = "agent"
    /\ percepts = [ScenarioHigh EXCEPT !.thermal = 330, !.asset_proximity = 50]
    /\ decision.kind = "decision"
    /\ decision.triggered_rules = <<"extreme_weather", "vegetation_thermal">>

\* The registered rules that return a non-empty message on the current
\* percepts, in registration order
FiredRules ==
    SelectSeq(rules, LAMBDA f : /\ RuleCall(f, percepts, Config).kind = "str"
                                /\ RuleCall(f, percepts, Config).s # <<>>)

\* C17: in every decision, triggered_rules are the names of exactly the rules
\* that returned a non-empty message, in registration order, and alert_message
\* is their messages in that order joined with "; " (None when there is
\* none); a rule returning None or "" contributes to neither.
C17_TriggeredAndAlertsInOrder ==
    decision.kind = "decision"
    => /\ decision.triggered_rules =
             [i \in 1..Len(FiredRules) |-> rule_names[FiredRules[i]]]
       /\ decision.alert_message =
             IF FiredRules = <<>> THEN None
             ELSE Str(StrJoin(<<";", " ">>,
                              [i \in 1..Len(FiredRules) |->
                                  RuleCall(FiredRules[i], percepts, Config).s]))

C17_Witness ==
    /\ decision.kind = "decision"
    /\ owner = "agent"
    /\ Len(rules) = 6
    /\ rules[5] = "empty_rule"
    /\ rules[6] = "test_rule"
    /\ decision.triggered_rules = <<"extreme_weather", "asset_proximity", "test_rule">>
    /\ decision.alert_message =
          Str(MsgExtremeWeather \o <<";", " ">> \o MsgAssetProximity
                \o <<";", " ">> \o MsgTestAlert)

\* What run(args) returns when it is executed alone with the provider
\* answers ans
AloneResult(a, ans) ==
    LET r == Perceive(a.lat, a.lon, a.max_thermal_age_hours, ans, Now, env_thermal)
    IN IF r.kind # "percepts" THEN Raised
       ELSE IF ~Validate(r.percepts) THEN None
       ELSE Evaluate(DefaultFuncs,
                     [f \in Range(DefaultFuncs) |->
                         DefaultNames[CHOOSE i \in 1..4 : DefaultFuncs[i] = f]],
                     r.percepts,
                     [thermal_threshold |-> DefaultThermalThreshold,
                      humidity_threshold |-> DefaultHumidityThreshold,
                      wind_threshold |-> DefaultWindThreshold])

\* C18: run() calls on the same agent that interleave in any way, with no
\* registration in progress, do not interfere: each call returns what it
\* would have returned alone with the same provider answers, and the rule
\* registry is not changed by any of them.
C18_ConcurrentRunsDoNotInterfere ==
    /\ \A c \in DOMAIN frames :
          frames[c].pc \in {"done", "aborted", "raised"}
          => /\ frames[c].result = AloneResult(frames[c].args, frames[c].provider)
             /\ frames[c].pc = "done" => frames[c].acted = <<frames[c].result>>
    /\ frames # <<>>
       => /\ rules = DefaultFuncs
          /\ DOMAIN rule_names = Range(DefaultFuncs)
          /\ \A i \in 1..4 : rule_names[DefaultFuncs[i]] = DefaultNames[i]

C18_Witness ==
    /\ frames # <<>>
    /\ frames[1].pc = "done"
    /\ frames[1].result.risk_level = "CRITICAL"
    /\ frames[2].pc = "act"
    /\ frames[2].decision.risk_level = "LOW"
    /\ frames[1].provider # frames[2].provider

\* The rules of an engine are the default rules and, after them, custom rules
DefaultsThenCustom(rs) ==
    /\ Len(rs) >= 4
    /\ SubSeq(rs, 1, 4) = DefaultFuncs
    /\ \A i \in 5..Len(rs) : rs[i] \in CustomFuncs

\* C19: agent instances are independent: each construction makes an engine
\* of its own that starts with no rule and no name before the default rules
\* are registered, and registering a rule on one agent changes neither the
\* rule list and names nor the decisions of the other.
C19_AgentsAreIndependent ==
    /\ [](/\ owner = "engine" => /\ \A i \in 1..Len(rules) : rules[i] \in PeerFuncs
                                  /\ DOMAIN rule_names = Range(rules)
          /\ owner = "agent" => DefaultsThenCustom(rules) /\ DOMAIN rule_names = Range(rules)
          /\ peer # None => /\ DefaultsThenCustom(peer.rules)
                            /\ DOMAIN peer.rule_names = Range(peer.rules))
    /\ [][/\ peer' # peer
             => /\ rules' = rules
                /\ rule_names' = rule_names
                /\ Evaluate(rules', rule_names', percepts', Config')
                     = Evaluate(rules, rule_names, percepts, Config)
          /\ (peer # None /\ rules' # rules) => peer' = peer]_vars

C19_Witness ==
    /\ peer # None
    /\ owner = "agent"
    /\ Len(peer.rules) = 6
    /\ Len(rules) = 5
    /\ rules[5] # peer.rules[5]
    /\ decision.kind = "decision"

Outside(x, lo, hi) == x # NaN /\ (x < lo \/ x > hi)

\* The checks of the guardrail that p violates, by field ("missing": an
\* absent field)
ViolatedChecks(p) ==
    {f \in CriticalFields \ {"landuse", "asset_proximity"} :
        /\ f \in DOMAIN p
        /\ CASE f = "thermal" -> Outside(p[f], 200, 400)
             [] f = "humidity" -> Outside(p[f], 0, 100)
             [] f = "wind_speed" -> Outside(p[f], 0, 200)
             [] f = "vegetation_density" -> Outside(p[f], 0, 100)
             [] f = "latitude" -> Outside(p[f], -90, 90)
             [] f = "longitude" -> Outside(p[f], -180, 180)}
    \cup (IF "asset_proximity" \in DOMAIN p /\ p.asset_proximity # NaN /\ p.asset_proximity < 0
          THEN {"asset_proximity"} ELSE {})
    \cup (IF "landuse" \in DOMAIN p /\ p.landuse \notin {"urban", "forest", "grassland"}
          THEN {"landuse"} ELSE {})
    \cup (IF \E f \in CriticalFields : f \notin DOMAIN p THEN {"missing"} ELSE {})

\* C20: validate runs all its checks and logs each violated check: for
\* percepts that violate several checks at once, every violation is logged
\* before false is returned, not only the first.
C20_EveryViolationLogged ==
    valid = "False" => Range(log) = ViolatedChecks(percepts)

\* Of the violated checks, validate logs one: the first in the order of its code
C20_FirstViolationLogged ==
    valid = "False"
    => /\ Len(log) = 1
       /\ log[1] \in ViolatedChecks(percepts)

\* C21: validate returns false whenever any field of the percepts is absent,
\* the timestamp included: percepts whose timestamp is None while every other
\* field is present and in range are rejected.
C21_AbsentFieldRejected ==
    (valid # "unset" /\ \E f \in PerceptFields : IsNone(percepts, f))
    => valid = "False"

\* The same for the eight fields that the None check of validate names
C21_AbsentCriticalFieldRejected ==
    (valid # "unset" /\ \E f \in CriticalFields : IsNone(percepts, f))
    => valid = "False"

\* C22: every discarded hotspot detection is logged before the percepts are
\* returned: a record older than max_thermal_age_hours gives a stale entry,
\* a record whose timestamp is missing or unparseable an unusable entry.
C22_DiscardedDetectionLogged ==
    (Perceiving /\ percepts # None /\ provider.nearby # None)
    => /\ (HasTimestamp(provider.nearby)
             /\ Age(provider.nearby) > Hours(args.max_thermal_age_hours))
          => "stale" \in Range(log)
       /\ provider.nearby.acquisition.kind \in {"missing", "garbled"}
          => "unusable" \in Range(log)

\* What perceive logs of a record it does not use: a stale entry exactly when
\* the record carries hours_since_detected above the maximum; nothing else
C22_StaleLoggedWhenReported ==
    (Perceiving /\ percepts # None /\ provider.nearby # None /\ fused = "baseline")
    => /\ "stale" \in Range(log)
          <=> ReportedStale(provider.nearby, args.max_thermal_age_hours)
       /\ "unusable" \notin Range(log)

\* The thresholds the agent had when __init__ returned
RegisteredConfig ==
    [thermal_threshold |-> env_thermal,
     humidity_threshold |-> DefaultHumidityThreshold,
     wind_threshold |-> DefaultWindThreshold]

ThresholdRules == {"high_temperature_forest_rule", "extreme_weather_rule"}

\* C23: the thresholds of the default rules are fixed at registration: after
\* a change of thermal_threshold, humidity_threshold or wind_threshold,
\* high_temperature_forest and extreme_weather fire for the same percepts as
\* with the thresholds of the construction.
C23_ThresholdsFixedAtRegistration ==
    (owner = "agent" /\ decision.kind = "decision")
    => \A f \in ThresholdRules :
          rule_names[f] \in Range(decision.triggered_rules)
          <=> Truthy(RuleCall(f, percepts, RegisteredConfig))

\* What the code does: the rule predicates read the thresholds of the agent
\* when they are called
C23_ThresholdsReadAtCall ==
    (owner = "agent" /\ decision.kind = "decision")
    => \A f \in ThresholdRules :
          rule_names[f] \in Range(decision.triggered_rules)
          <=> Truthy(RuleCall(f, percepts, Config))

\* One scan of a text for the keywords in the order CRITICAL, HIGH, MEDIUM
ScanRisk(text) ==
    LET up == StrUpper(text)
    IN IF StrIn(KwCritical, up) THEN "CRITICAL"
       ELSE IF StrIn(KwHigh, up) THEN "HIGH"
       ELSE IF StrIn(KwMedium, up) THEN "MEDIUM"
       ELSE "LOW"

\* C24: the incremental update of the risk level, message by message, gives
\* the same risk_level as one scan in the order CRITICAL, HIGH, MEDIUM over
\* the triggered messages taken together (the joined alert message), for any
\* registration order and for messages with several keywords.
C24_IncrementalIsPriorityScan ==
    decision.kind = "decision"
    => decision.risk_level =
          ScanRisk(IF decision.alert_message = None THEN <<>>
                   ELSE decision.alert_message.s)

C24_Witness ==
    /\ decision.kind = "decision"
    /\ owner = "agent"
    /\ rules[Len(rules)] = "medium_to_high_rule"
    /\ "asset_proximity" \in Range(decision.triggered_rules)
    /\ decision.risk_level = "HIGH"
    /\ ScanRisk(decision.alert_message.s) = "HIGH"

\* C25: registration may interleave with evaluation on the same engine: when
\* evaluate runs between the two statements of add_rule it neither fails with
\* an unhandled error nor reports a triggered rule without its registered name.
C25_RegistrationInterleavesSafely ==
    /\ decision.kind # "raise"
    /\ decision.kind = "decision"
       => Len(decision.triggered_rules) = Len(FiredRules)

\* evaluate fails only between the two statements of add_rule, and only when
\* the appended function has no name yet and fires
C25_FailsOnlyWithinRegistration ==
    decision.kind = "raise"
    <=> /\ decision # NoCall
        /\ frames # <<>>
        /\ frames[1].func \notin DOMAIN rule_names
        /\ Truthy(RuleCall(frames[1].func, percepts, Config))

\* C26: evaluate returns a decision for every rule return value: a rule that
\* returns a truthy value that is not a string neither makes evaluate raise
\* nor leaves a partial contribution; triggered_rules and the alert messages
\* of the decision have the same length (one per rule that fired with a
\* message) and the joined message is a string.
C26_EveryReturnValueHandled ==
    decision # NoCall
    => /\ decision.kind = "decision"
       /\ Len(decision.triggered_rules) = Len(FiredRules)
       /\ decision.alert_message # None => decision.alert_message.kind = "str"

\* evaluate raises exactly when a registered rule returns a truthy value that
\* is not a string: the value is appended to the alerts before upper() fails,
\* and the join of the alerts raises TypeError
C26_RaisesOnNonString ==
    decision # NoCall => (decision.kind = "raise" <=> ~RulesTyped)

\* C27: after any sequence of add_rule calls every entry of the rule list has
\* exactly one name of its own, also when one function is registered more
\* than once: the number of stored names equals the number of registered
\* rules.
C27_OneNamePerRegistration ==
    /\ \A i \in 1..Len(rules) : rules[i] \in DOMAIN rule_names
    /\ Cardinality(DOMAIN rule_names) = Len(rules)

\* What the code keeps: one name per function, the one of its last
\* registration, whatever the number of entries of the function in the list
C27_OneNamePerFunction ==
    /\ DOMAIN rule_names = Range(rules)
    /\ \A f \in CustomFuncs \cap DOMAIN rule_names :
          rule_names[f] \in {f} \cup (NameArgs(f) \ {""})
    /\ decision.kind = "decision"
       => decision.triggered_rules =
             [i \in 1..Len(FiredRules) |-> rule_names[FiredRules[i]]]

\* C28: with the agent's thermal threshold and the override constant both
\* from THERMAL_THRESHOLD, a run whose thermal was overridden has thermal
\* equal to the threshold, never triggers high_temperature_forest and, with
\* the default rules only, never yields CRITICAL: it reaches at most HIGH.
C28_OverrideNeverCritical ==
    (InRun /\ fused = "override" /\ thermal_threshold = env_thermal
        /\ rules = DefaultFuncs /\ decision.kind = "decision")
    => /\ percepts.thermal = thermal_threshold
       /\ "high_temperature_forest" \notin Range(decision.triggered_rules)
       /\ decision.risk_level # "CRITICAL"

C28_Witness ==
    /\ InRun /\ fused = "override" /\ thermal_threshold = env_thermal
    /\ rules = DefaultFuncs /\ decision.kind = "decision"
    /\ provider.thermal = 340
    /\ percepts.landuse = "forest"
    /\ percepts.humidity = 10
    /\ decision.risk_level = "HIGH"

\* C29: perceive never fails because of the content of the hotspot record:
\* when every provider call answers, whatever the record (confidence above
\* 0.5, ISO timestamp with or without an offset), perceive returns percepts
\* whose thermal is the baseline or the override constant.
C29_RecordNeverFailsPerceive ==
    Perceiving
    => /\ percepts # None
       /\ percepts.thermal \in {provider.thermal, env_thermal}
       /\ "error" \notin Range(log)

\* perceive fails on a record exactly when its confidence is above 0.5 and
\* its ISO timestamp has no offset: the subtraction from the aware now raises
C29_FailsOnNaiveTimestamp ==
    Perceiving
    => (percepts = None
        <=> /\ provider.nearby # None
            /\ provider.nearby.confidence > 50
            /\ provider.nearby.acquisition.kind = "naive")

\* What C30 states of a step that registers a rule: the decision of the same
\* percepts after the step is not below the one before it
NeverLowers ==
    LET before == Evaluate(rules, rule_names, percepts, Config)
        after == Evaluate(rules', rule_names', percepts, Config)
    IN before.kind = "decision"
       => /\ after.kind = "decision"
          /\ RiskPriority(after.risk_level) >= RiskPriority(before.risk_level)
          /\ DoubleLe(before.confidence, after.confidence)
          /\ Len(after.triggered_rules) >= Len(before.triggered_rules)
          /\ SubSeq(after.triggered_rules, 1, Len(before.triggered_rules))
                = before.triggered_rules

\* C30: registering one more rule never lowers an assessment: for every
\* percept set and rule list the decision after the registration (the rule
\* may fire, not fire or raise) has a risk_level and a confidence at least
\* those before, and the earlier triggered_rules are a prefix of the new ones.
C30_AppendNeverLowers == [][AddRuleStep => NeverLowers]_vars

\* The statement of C30 for a rule of the declared type Optional[str] that
\* is not registered under a second name
C30_TypedNewRuleNeverLowers ==
    [][(/\ AddRuleStep
        /\ RuleCall(rules'[Len(rules')], percepts, Config).kind # "obj"
        /\ rules'[Len(rules')] \in Range(rules)
             => rule_names'[rules'[Len(rules')]] = rule_names[rules'[Len(rules')]])
       => NeverLowers]_vars

====
